---- MODULE Spec2Model ----
(***************************************************************************)
(* Model of backend/main.py: the FastAPI application with the two routes  *)
(* POST /api/upload (upload_pdf) and GET /api/health (health_check).       *)
(*                                                                         *)
(* Text is modelled as a sequence of Unicode code points and binary data   *)
(* as a sequence of bytes (0..255).  Every request in flight occupies one  *)
(* slot of Reqs; the handler's local variables are functions of the slot.  *)
(* The variables log is a history variable: it records, per request, the   *)
(* calls the handler made and what each of them returned or raised.        *)
(***************************************************************************)
EXTENDS Integers, Sequences, FiniteSets, TLC

VARIABLES pc, route, filename, body, pdf_content, images, result, idx,
          response, log

vars == <<pc, route, filename, body, pdf_content, images, result, idx,
          response, log>>

(***************************************************************************)
(* Bounds of the model.                                                    *)
(***************************************************************************)
\* the largest number of pages the rasterizer returns for one document
MaxPages == 2

\* the request slots: requests that can be in flight at the same time
Reqs == {"r1", "r2"}

(***************************************************************************)
(* Text helpers.                                                           *)
(***************************************************************************)
\* str.lower() on one code point (ASCII range: 'A'..'Z' -> 'a'..'z')
LowerChar(c) == IF c >= 65 /\ c <= 90 THEN c + 32 ELSE c

\* str.lower()
Lower(s) == [k \in 1..Len(s) |-> LowerChar(s[k])]

\* str.endswith(suffix)
EndsWith(s, suffix) ==
    /\ Len(s) >= Len(suffix)
    /\ SubSeq(s, Len(s) - Len(suffix) + 1, Len(s)) = suffix

\* the literal ".pdf"
DotPdf == <<46, 112, 100, 102>>

\* the comparison made without lower()
ValidFilenameCaseSensitive(name) == EndsWith(name, DotPdf)

\* line 40: file.filename.lower().endswith(".pdf")
ValidFilename(name) == EndsWith(Lower(name), DotPdf)

(***************************************************************************)
(* Responses and messages.                                                 *)
(***************************************************************************)
\* the detail of line 41: "只支持PDF文件" (only PDF files are supported)
OnlyPdfDetail == <<21482, 25903, 25345, 80, 68, 70, 25991, 20214>>

\* the prefix of the detail of line 68: "PDF处理失败: " (PDF processing failed)
ProcessingPrefix == <<80, 68, 70, 22788, 29702, 22833, 36133, 58, 32>>

\* the prefix of the image field, line 56: "data:image/png;base64,"
DataUriPrefix == <<100, 97, 116, 97, 58, 105, 109, 97, 103, 101, 47, 112,
                   110, 103, 59, 98, 97, 115, 101, 54, 52, 44>>

\* no response sent yet
NoResponse == [status |-> 0]

\* line 41: HTTPException(status_code=400, detail="只支持PDF文件")
ValidationResponse == [status |-> 400, detail |-> OnlyPdfDetail]

\* the detail without str(e)
ExceptionResponseNoText(e) == [status |-> 500, detail |-> ProcessingPrefix]

\* line 68: HTTPException(status_code=500, detail=f"PDF处理失败: {str(e)}")
ExceptionResponse(e) == [status |-> 500, detail |-> ProcessingPrefix \o e]

\* lines 61-65: JSONResponse(content={success, total_pages, images})
SuccessResponse(res) ==
    [status |-> 200, success |-> TRUE, total_pages |-> Len(res), images |-> res]

\* a health check that reports the uploads in progress
HealthCheckBusy ==
    IF \E q \in Reqs : pc[q] \in {"read", "convert", "encode"}
    THEN [status |-> 503, body |-> [status |-> "busy"]]
    ELSE [status |-> 200, body |-> [status |-> "ok"]]

\* line 74: return {"status": "ok"}
HealthCheckResponse == [status |-> 200, body |-> [status |-> "ok"]]

(***************************************************************************)
(* Outcomes of the calls the handler makes: a value or a raised exception  *)
(* (an instance of Exception, known here by its str()).                    *)
(***************************************************************************)
Ok(v) == [ok |-> TRUE, val |-> v]
Err(e) == [ok |-> FALSE, err |-> e]

\* str(e) of the exceptions the collaborators raise: "" and "bad"
ErrorTexts == { <<>>, <<98, 97, 100>> }

\* an entry of the history of a request
Event(op, arg, out) == [op |-> op, arg |-> arg, out |-> out]

(***************************************************************************)
(* Inputs: the uploaded files.                                             *)
(***************************************************************************)
\* "report.txt", "Report.PDF", "x.pdf", "pdf", "x.pdf.txt"
Filenames ==
    { <<114, 101, 112, 111, 114, 116, 46, 116, 120, 116>>,
      <<82, 101, 112, 111, 114, 116, 46, 80, 68, 70>>,
      <<120, 46, 112, 100, 102>>,
      <<112, 100, 102>>,
      <<120, 46, 112, 100, 102, 46, 116, 120, 116>> }

\* the header every PDF document starts with: "%PDF"
PdfMagic == <<37, 80, 68, 70>>

\* upload bodies: a PDF document, an empty body, bytes that are not a PDF
Bodies == { PdfMagic \o <<45, 49>>, <<>>, <<0, 1>> }

IsPdf(b) == Len(b) >= Len(PdfMagic) /\ SubSeq(b, 1, Len(PdfMagic)) = PdfMagic

(***************************************************************************)
(* The raster images (PIL.Image) and the rasterization collaborator.       *)
(***************************************************************************)
PageImages ==
    { [width |-> 1240, height |-> 1754, data |-> <<>>],
      [width |-> 1275, height |-> 1650, data |-> <<255>>],
      [width |-> 1754, height |-> 1240, data |-> <<0, 128>>] }

PageLists == UNION { [1..n -> PageImages] : n \in 0..MaxPages }

\* line 48: the resolution passed to convert_from_bytes
Dpi == 150

\* line 48: what convert_from_bytes(pdf, dpi) can do: raise, or, for a PDF
\* document, return one image per page
RasterOutcomes(pdf) ==
    { Err(e) : e \in ErrorTexts }
      \cup (IF IsPdf(pdf) THEN { Ok(p) : p \in PageLists } ELSE {})

(***************************************************************************)
(* PNG encoding (image.save) and base64.                                   *)
(***************************************************************************)
\* a 32-bit big-endian integer
BE32(n) == << (n \div 16777216) % 256, (n \div 65536) % 256,
              (n \div 256) % 256, n % 256 >>

PngSignature == <<137, 80, 78, 71, 13, 10, 26, 10>>

\* lines 27-29: the bytes image.save(buffer, format="PNG") leaves in buffer
PngSave(image) ==
    PngSignature \o BE32(image.width) \o BE32(image.height) \o image.data

\* line 28: image.save writes the PNG bytes or raises
SaveOutcomes(image) == { Ok(PngSave(image)) } \cup { Err(e) : e \in ErrorTexts }

\* the base64 alphabet: A-Z a-z 0-9 + /
B64Char(k) ==
    IF k < 26 THEN 65 + k
    ELSE IF k < 52 THEN 97 + (k - 26)
    ELSE IF k < 62 THEN 48 + (k - 52)
    ELSE IF k = 62 THEN 43 ELSE 47

\* the padding character '='
B64Pad == 61

RECURSIVE B64EncodeNoPad(_)
\* base64 without the '=' padding of the last group
B64EncodeNoPad(s) ==
    IF Len(s) = 0 THEN <<>>
    ELSE IF Len(s) = 1 THEN
        << B64Char(s[1] \div 4), B64Char((s[1] % 4) * 16) >>
    ELSE IF Len(s) = 2 THEN
        << B64Char(s[1] \div 4), B64Char((s[1] % 4) * 16 + s[2] \div 16),
           B64Char((s[2] % 16) * 4) >>
    ELSE
        << B64Char(s[1] \div 4), B64Char((s[1] % 4) * 16 + s[2] \div 16),
           B64Char((s[2] % 16) * 4 + s[3] \div 64), B64Char(s[3] % 64) >>
          \o B64EncodeNoPad(SubSeq(s, 4, Len(s)))

RECURSIVE B64Encode(_)
\* line 30: base64.b64encode(...).decode("utf-8")
B64Encode(s) ==
    IF Len(s) = 0 THEN <<>>
    ELSE IF Len(s) = 1 THEN
        << B64Char(s[1] \div 4), B64Char((s[1] % 4) * 16), B64Pad, B64Pad >>
    ELSE IF Len(s) = 2 THEN
        << B64Char(s[1] \div 4), B64Char((s[1] % 4) * 16 + s[2] \div 16),
           B64Char((s[2] % 16) * 4), B64Pad >>
    ELSE
        << B64Char(s[1] \div 4), B64Char((s[1] % 4) * 16 + s[2] \div 16),
           B64Char((s[2] % 16) * 4 + s[3] \div 64), B64Char(s[3] % 64) >>
          \o B64Encode(SubSeq(s, 4, Len(s)))

\* line 56: f"data:image/png;base64,{base64_image}"
DataUri(b64) == DataUriPrefix \o b64

\* page number in place of the 1-based one
ResultEntryZeroBased(i, image, b64) ==
    [page |-> i, image |-> DataUri(b64),
     width |-> image.width, height |-> image.height]

\* width and height exchanged
ResultEntrySwapped(i, image, b64) ==
    [page |-> i + 1, image |-> DataUri(b64),
     width |-> image.height, height |-> image.width]

\* lines 54-59: the entry appended for the image at index i of enumerate
ResultEntry(i, image, b64) ==
    [page |-> i + 1, image |-> DataUri(b64),
     width |-> image.width, height |-> image.height]

(***************************************************************************)
(* The state after the application is constructed: no request in flight.   *)
(***************************************************************************)
Init ==
    /\ pc = [r \in Reqs |-> "idle"]
    /\ route = [r \in Reqs |-> "none"]
    /\ filename = [r \in Reqs |-> <<>>]
    /\ body = [r \in Reqs |-> <<>>]
    /\ pdf_content = [r \in Reqs |-> <<>>]
    /\ images = [r \in Reqs |-> <<>>]
    /\ result = [r \in Reqs |-> <<>>]
    /\ idx = [r \in Reqs |-> 0]
    /\ response = [r \in Reqs |-> NoResponse]
    /\ log = [r \in Reqs |-> <<>>]

\* a request arrives in a free slot; the locals of its handler are unset
Arrive(r, rt, name, content) ==
    /\ pc[r] \in {"idle", "done"}
    /\ pc' = [pc EXCEPT ![r] = IF rt = "upload" THEN "validate" ELSE "health"]
    /\ route' = [route EXCEPT ![r] = rt]
    /\ filename' = [filename EXCEPT ![r] = name]
    /\ body' = [body EXCEPT ![r] = content]
    /\ pdf_content' = [pdf_content EXCEPT ![r] = <<>>]
    /\ images' = [images EXCEPT ![r] = <<>>]
    /\ result' = [result EXCEPT ![r] = <<>>]
    /\ idx' = [idx EXCEPT ![r] = 0]
    /\ response' = [response EXCEPT ![r] = NoResponse]
    /\ log' = [log EXCEPT ![r] = <<>>]

\* POST /api/upload with a file
ArriveUpload(r) ==
    \E name \in Filenames, content \in Bodies : Arrive(r, "upload", name, content)

\* GET /api/health
ArriveHealth(r) == Arrive(r, "health", <<>>, <<>>)

\* lines 40-41: the filename is not a PDF's: HTTP 400, nothing else is done
Reject(r) ==
    /\ pc[r] = "validate"
    /\ ~ValidFilename(filename[r])
    /\ response' = [response EXCEPT ![r] = ValidationResponse]
    /\ log' = [log EXCEPT ![r] = Append(@, Event("respond", 400, Ok(<<>>)))]
    /\ pc' = [pc EXCEPT ![r] = "done"]
    /\ UNCHANGED <<route, filename, body, pdf_content, images, result, idx>>

\* line 40: the filename passes, the handler enters the try block
Accept(r) ==
    /\ pc[r] = "validate"
    /\ ValidFilename(filename[r])
    /\ pc' = [pc EXCEPT ![r] = "read"]
    /\ UNCHANGED <<route, filename, body, pdf_content, images, result, idx,
                   response, log>>

\* the failed call is made again in place of the response
RaiseRetry(r, ev, e) ==
    /\ log' = [log EXCEPT ![r] = Append(@, ev)]
    /\ UNCHANGED <<pc, response>>

\* the pages encoded so far are returned
RaisePartial(r, ev, e) ==
    /\ response' = [response EXCEPT ![r] = SuccessResponse(result[r])]
    /\ log' = [log EXCEPT ![r] = Append(Append(@, ev), Event("respond", 200, Ok(<<>>)))]
    /\ pc' = [pc EXCEPT ![r] = "done"]

\* lines 67-68: the call recorded in ev raised e: HTTP 500, the handler ends
Raise(r, ev, e) ==
    /\ response' = [response EXCEPT ![r] = ExceptionResponse(e)]
    /\ log' = [log EXCEPT ![r] = Append(Append(@, ev), Event("respond", 500, Ok(<<>>)))]
    /\ pc' = [pc EXCEPT ![r] = "done"]

\* line 45: pdf_content = await file.read()
ReadOk(r) ==
    /\ pc[r] = "read"
    /\ pdf_content' = [pdf_content EXCEPT ![r] = body[r]]
    /\ log' = [log EXCEPT ![r] = Append(@, Event("read", <<>>, Ok(body[r])))]
    /\ pc' = [pc EXCEPT ![r] = "convert"]
    /\ UNCHANGED <<route, filename, body, images, result, idx, response>>

\* line 45: file.read() raises
ReadRaise(r) ==
    /\ pc[r] = "read"
    /\ \E e \in ErrorTexts : Raise(r, Event("read", <<>>, Err(e)), e)
    /\ UNCHANGED <<route, filename, body, pdf_content, images, result, idx>>

\* the resolution left out of the call
ConvertArgsOtherDpi(r) == [pdf |-> pdf_content[r], dpi |-> Dpi + 50]

\* line 48: the arguments of convert_from_bytes(pdf_content, dpi=150)
ConvertArgs(r) == [pdf |-> pdf_content[r], dpi |-> Dpi]

\* lines 48, 51: images = convert_from_bytes(...); result = []
ConvertOk(r) ==
    /\ pc[r] = "convert"
    /\ \E out \in RasterOutcomes(ConvertArgs(r).pdf) :
         /\ out.ok
         /\ images' = [images EXCEPT ![r] = out.val]
         /\ log' = [log EXCEPT ![r] = Append(@, Event("convert", ConvertArgs(r), out))]
    /\ result' = [result EXCEPT ![r] = <<>>]
    /\ idx' = [idx EXCEPT ![r] = 0]
    /\ pc' = [pc EXCEPT ![r] = "encode"]
    /\ UNCHANGED <<route, filename, body, pdf_content, response>>

\* line 48: convert_from_bytes raises
ConvertRaise(r) ==
    /\ pc[r] = "convert"
    /\ \E out \in RasterOutcomes(ConvertArgs(r).pdf) :
         /\ ~out.ok
         /\ Raise(r, Event("convert", ConvertArgs(r), out), out.err)
    /\ UNCHANGED <<route, filename, body, pdf_content, images, result, idx>>

\* one list shared by all the requests
AppendResultShared(r, entry) == [q \in Reqs |-> Append(result[q], entry)]

\* line 54: result.append(...), on the list of this call of the handler
AppendResult(r, entry) == [result EXCEPT ![r] = Append(@, entry)]

\* lines 52-59: one turn of the loop, on the image at index idx
EncodeOk(r) ==
    /\ pc[r] = "encode"
    /\ idx[r] < Len(images[r])
    /\ LET image == images[r][idx[r] + 1]
           png == PngSave(image)
       IN /\ Ok(png) \in SaveOutcomes(image)
          /\ result' = AppendResult(r, ResultEntry(idx[r], image, B64Encode(png)))
          /\ log' = [log EXCEPT ![r] = Append(@, Event("encode", idx[r] + 1, Ok(png)))]
    /\ idx' = [idx EXCEPT ![r] = @ + 1]
    /\ UNCHANGED <<pc, route, filename, body, pdf_content, images, response>>

\* line 53 (line 28): image.save raises in image_to_base64
EncodeRaise(r) ==
    /\ pc[r] = "encode"
    /\ idx[r] < Len(images[r])
    /\ \E out \in SaveOutcomes(images[r][idx[r] + 1]) :
         /\ ~out.ok
         /\ Raise(r, Event("encode", idx[r] + 1, out), out.err)
    /\ UNCHANGED <<route, filename, body, pdf_content, images, result, idx>>

\* lines 61-65: the loop is over, the result is returned
Respond(r) ==
    /\ pc[r] = "encode"
    /\ idx[r] = Len(images[r])
    /\ response' = [response EXCEPT ![r] = SuccessResponse(result[r])]
    /\ log' = [log EXCEPT ![r] = Append(@, Event("respond", 200, Ok(<<>>)))]
    /\ pc' = [pc EXCEPT ![r] = "done"]
    /\ UNCHANGED <<route, filename, body, pdf_content, images, result, idx>>

\* lines 71-74: health_check
HealthCheck(r) ==
    /\ pc[r] = "health"
    /\ response' = [response EXCEPT ![r] = HealthCheckResponse]
    /\ log' = [log EXCEPT ![r] = Append(@, Event("respond", 200, Ok(<<>>)))]
    /\ pc' = [pc EXCEPT ![r] = "done"]
    /\ UNCHANGED <<route, filename, body, pdf_content, images, result, idx>>

Next ==
    \E r \in Reqs :
        \/ ArriveUpload(r)
        \/ ArriveHealth(r)
        \/ Reject(r)
        \/ Accept(r)
        \/ ReadOk(r)
        \/ ReadRaise(r)
        \/ ConvertOk(r)
        \/ ConvertRaise(r)
        \/ EncodeOk(r)
        \/ EncodeRaise(r)
        \/ Respond(r)
        \/ HealthCheck(r)

Spec == Init /\ [][Next]_vars

(***************************************************************************)
(* Vocabulary of the properties.                                           *)
(***************************************************************************)
Uploads == { r \in Reqs : route[r] = "upload" }

\* the events of one kind in the history of a request
LogEvents(r, op) == SelectSeq(log[r], LAMBDA ev : ev.op = op)

\* some call of the request raised
Failed(r) == \E k \in 1..Len(log[r]) : ~log[r][k].out.ok

\* the images the rasterizer returned to the request
RasterReturned(r) == LogEvents(r, "convert")[1].out.val

\* the name ends with '.', 'p' or 'P', 'd' or 'D', 'f' or 'F'
HasPdfExtension(name) ==
    /\ Len(name) >= 4
    /\ name[Len(name) - 3] = 46
    /\ name[Len(name) - 2] \in {112, 80}
    /\ name[Len(name) - 1] \in {100, 68}
    /\ name[Len(name)] \in {102, 70}

\* text t occurs in text d
Embeds(d, t) ==
    \E k \in 1..(Len(d) + 1) :
        k + Len(t) - 1 <= Len(d) /\ SubSeq(d, k, k + Len(t) - 1) = t

\* the value of a character of the base64 alphabet
B64Value(c) == CHOOSE k \in 0..63 : B64Char(k) = c

IsB64Char(c) == \E k \in 0..63 : B64Char(k) = c

\* t is padded base64: groups of four characters, '=' only at the end
IsBase64(t) ==
    /\ Len(t) % 4 = 0
    /\ \A k \in 1..Len(t) :
         \/ IsB64Char(t[k])
         \/ t[k] = 61 /\ k = Len(t)
         \/ t[k] = 61 /\ k = Len(t) - 1 /\ t[Len(t)] = 61

RECURSIVE B64Decode(_)
\* the bytes a base64 text stands for
B64Decode(t) ==
    IF Len(t) < 4 THEN <<>>
    ELSE LET a == B64Value(t[1])
             b == B64Value(t[2])
         IN IF t[3] = 61 THEN << a * 4 + b \div 16 >>
            ELSE IF t[4] = 61 THEN
                << a * 4 + b \div 16, (b % 16) * 16 + B64Value(t[3]) \div 4 >>
            ELSE
                << a * 4 + b \div 16, (b % 16) * 16 + B64Value(t[3]) \div 4,
                   (B64Value(t[3]) % 4) * 64 + B64Value(t[4]) >>
                  \o B64Decode(SubSeq(t, 5, Len(t)))

(***************************************************************************)
(* C1: an upload is answered with HTTP 400 and the fixed message exactly   *)
(* when its filename, compared without regard to case, does not end with   *)
(* ".pdf"; the content of the file plays no part.                          *)
(***************************************************************************)
C1_Rejected400IffNotPdfName ==
    \A r \in Uploads :
        /\ pc[r] = "done" =>
             ((response[r].status = 400) <=> ~HasPdfExtension(filename[r]))
        /\ response[r].status = 400 =>
             /\ ~HasPdfExtension(filename[r])
             /\ response[r].detail = OnlyPdfDetail

\* "report.txt" with a PDF body is rejected while "Report.PDF" with a body
\* that is no PDF is not
C1_Witness ==
    \E r, q \in Uploads :
        /\ pc[r] = "done" /\ pc[q] = "done"
        /\ filename[r] = <<114, 101, 112, 111, 114, 116, 46, 116, 120, 116>>
        /\ IsPdf(body[r])
        /\ response[r].status = 400
        /\ filename[q] = <<82, 101, 112, 111, 114, 116, 46, 80, 68, 70>>
        /\ ~IsPdf(body[q])
        /\ response[q].status = 500

(***************************************************************************)
(* C2: in every 200 response of an upload, total_pages is the number of    *)
(* entries of images, which is the number of pages the rasterizer          *)
(* returned, and the entry at position i (from 1) has page = i.            *)
(***************************************************************************)
C2_PagesContiguousFromOne ==
    \A r \in Uploads :
        response[r].status = 200 =>
            /\ response[r].total_pages = Len(response[r].images)
            /\ Len(response[r].images) = Len(RasterReturned(r))
            /\ \A k \in 1..Len(response[r].images) :
                 response[r].images[k].page = k

C2_Witness ==
    \E r \in Uploads :
        /\ response[r].status = 200
        /\ response[r].total_pages = 2
        /\ response[r].images[2].page = 2

(***************************************************************************)
(* C3: when the filename passes and reading the body, rasterizing or       *)
(* encoding a page raises, the response is HTTP 500, its detail is not     *)
(* empty and contains the text of the exception; failures with the same    *)
(* text get the same response whichever call raised.                       *)
(***************************************************************************)
C3_FailureIs500WithErrorText ==
    \A r \in Uploads :
        (pc[r] = "done" /\ HasPdfExtension(filename[r])) =>
            \A k \in 1..Len(log[r]) :
                ~log[r][k].out.ok =>
                    /\ log[r][k].op \in {"read", "convert", "encode"}
                    /\ response[r].status = 500
                    /\ Len(response[r].detail) > 0
                    /\ Embeds(response[r].detail, log[r][k].out.err)
                    /\ \A q \in Uploads :
                         \A j \in 1..Len(log[q]) :
                             (pc[q] = "done" /\ ~log[q][j].out.ok
                                /\ log[q][j].out.err = log[r][k].out.err)
                               => response[q] = response[r]

\* an encoding that raised with an empty text and a read that raised "bad"
C3_Witness ==
    \E r, q \in Uploads :
        /\ pc[r] = "done" /\ pc[q] = "done"
        /\ \E k \in 1..Len(log[r]) :
             /\ log[r][k].op = "encode"
             /\ ~log[r][k].out.ok
             /\ log[r][k].out.err = <<>>
        /\ \E k \in 1..Len(log[q]) :
             /\ log[q][k].op = "read"
             /\ ~log[q][k].out.ok
             /\ log[q][k].out.err = <<98, 97, 100>>
        /\ response[r].status = 500 /\ response[q].status = 500

(***************************************************************************)
(* C4: there is no partial success: a response that is not 200 carries no  *)
(* page data, a request one of whose calls raised is not answered with     *)
(* 200, and a 200 response holds one entry for every page the rasterizer   *)
(* returned, each of them encoded.                                         *)
(***************************************************************************)
C4_NoPartialSuccess ==
    \A r \in Uploads :
        /\ (pc[r] = "done" /\ response[r].status # 200) =>
             DOMAIN response[r] = {"status", "detail"}
        /\ (pc[r] = "done" /\ Failed(r)) => response[r].status # 200
        /\ response[r].status = 200 =>
             /\ Len(response[r].images) = Len(RasterReturned(r))
             /\ \A k \in 1..Len(RasterReturned(r)) :
                  \E j \in 1..Len(log[r]) :
                      /\ log[r][j].op = "encode"
                      /\ log[r][j].arg = k
                      /\ log[r][j].out.ok

\* the encoding of the second page raised after the first page was encoded
C4_Witness ==
    \E r \in Uploads :
        /\ pc[r] = "done"
        /\ Len(result[r]) = 1
        /\ \E j \in 1..Len(log[r]) :
             log[r][j].op = "encode" /\ log[r][j].arg = 2 /\ ~log[r][j].out.ok
        /\ response[r].status = 500

(***************************************************************************)
(* C5: every health check is answered with HTTP 200 and {"status": "ok"},  *)
(* whatever the other requests did or are doing, and with nothing else.    *)
(***************************************************************************)
C5_HealthAlwaysOk ==
    \A r \in Reqs :
        route[r] = "health" =>
            /\ pc[r] \in {"health", "done"}
            /\ pc[r] = "done" =>
                 /\ response[r] = [status |-> 200, body |-> [status |-> "ok"]]
                 /\ Len(log[r]) = 1
            /\ pc[r] = "health" => response[r] = NoResponse

\* a health check answered while an upload is in the middle of its pages
C5_Witness ==
    \E r, q \in Reqs :
        /\ route[r] = "health" /\ pc[r] = "done"
        /\ route[q] = "upload" /\ pc[q] = "encode"
        /\ idx[q] = 1 /\ Len(images[q]) = 2

(***************************************************************************)
(* C6: in every 200 response of an upload, the width and height of the     *)
(* entry at position i are those of the i-th image the rasterizer          *)
(* returned.                                                               *)
(***************************************************************************)
C6_DimensionsOfOwnPage ==
    \A r \in Uploads :
        response[r].status = 200 =>
            \A k \in 1..Len(response[r].images) :
                /\ k <= Len(RasterReturned(r))
                /\ response[r].images[k].width = RasterReturned(r)[k].width
                /\ response[r].images[k].height = RasterReturned(r)[k].height

\* two pages of different sizes, neither of them square
C6_Witness ==
    \E r \in Uploads :
        /\ response[r].status = 200
        /\ Len(response[r].images) = 2
        /\ response[r].images[1].width # response[r].images[2].width
        /\ response[r].images[1].width # response[r].images[1].height

(***************************************************************************)
(* C7: every image field of a 200 response is "data:image/png;base64,"     *)
(* followed by valid base64 that decodes to the PNG bytes image.save       *)
(* produced for the image of the same page.                                *)
(***************************************************************************)
C7_ImageFieldRoundTrip ==
    \A r \in Uploads :
        response[r].status = 200 =>
            \A k \in 1..Len(response[r].images) :
                LET uri == response[r].images[k].image
                    payload == SubSeq(uri, Len(DataUriPrefix) + 1, Len(uri))
                IN /\ Len(uri) >= Len(DataUriPrefix)
                   /\ SubSeq(uri, 1, Len(DataUriPrefix)) = DataUriPrefix
                   /\ IsBase64(payload)
                   /\ k <= Len(LogEvents(r, "encode"))
                   /\ LogEvents(r, "encode")[k].out.val
                        = PngSave(RasterReturned(r)[k])
                   /\ B64Decode(payload) = LogEvents(r, "encode")[k].out.val

\* two pages whose PNG encodings end in a group of one and of two bytes
C7_Witness ==
    \E r \in Uploads :
        /\ response[r].status = 200
        /\ Len(response[r].images) = 2
        /\ Len(PngSave(RasterReturned(r)[1])) % 3 = 1
        /\ Len(PngSave(RasterReturned(r)[2])) % 3 = 2

(***************************************************************************)
(* C8: within one upload the calls happen in the order read, rasterize,    *)
(* encode page 1, 2, ... in the order of the rasterizer, respond; read and *)
(* rasterize happen at most once, each page is encoded at most once, no    *)
(* call follows a call that raised, and exactly one response is sent.      *)
(***************************************************************************)
Rank(ev) ==
    CASE ev.op = "read" -> 1
      [] ev.op = "convert" -> 2
      [] ev.op = "encode" -> 3
      [] ev.op = "respond" -> 4

C8_SequentialNoRetry ==
    \A r \in Uploads :
        LET L == log[r] IN
        /\ Len(LogEvents(r, "read")) <= 1
        /\ Len(LogEvents(r, "convert")) <= 1
        /\ \A k \in 1..Len(LogEvents(r, "encode")) :
             LogEvents(r, "encode")[k].arg = k
        /\ \A j \in 1..Len(L) : \A k \in (j + 1)..Len(L) :
             Rank(L[j]) <= Rank(L[k])
        /\ \A k \in 2..Len(L) :
             /\ L[k].op = "convert" => L[k - 1].op = "read"
             /\ L[k].op = "encode" => L[k - 1].op \in {"convert", "encode"}
             /\ L[k].op # "respond" => L[k - 1].out.ok
        /\ Len(L) > 0 => L[1].op \in {"read", "respond"}
        /\ pc[r] = "done" =>
             /\ Len(LogEvents(r, "respond")) = 1
             /\ L[Len(L)].op = "respond"
             /\ L[Len(L)].arg = response[r].status
        /\ pc[r] # "done" =>
             /\ Len(LogEvents(r, "respond")) = 0
             /\ response[r] = NoResponse
        /\ response[r].status = 200 =>
             Len(LogEvents(r, "encode")) = Len(RasterReturned(r))

\* a request answered after a read, a rasterization and two encodings
C8_Witness ==
    \E r \in Uploads :
        /\ pc[r] = "done"
        /\ Len(log[r]) = 5
        /\ log[r][1].op = "read"
        /\ log[r][2].op = "convert"
        /\ log[r][3].op = "encode" /\ log[r][4].op = "encode"
        /\ log[r][5].op = "respond"

(***************************************************************************)
(* C9: requests processed at the same time share nothing: what a request   *)
(* has built so far and the response it gets are those of the same request *)
(* processed alone, made of its own filename, its own pages and its own    *)
(* exception.                                                              *)
(***************************************************************************)
\* the entry of a page in the response of a request processed alone
AloneEntry(k, image) ==
    [page |-> k, image |-> DataUriPrefix \o B64Encode(PngSave(image)),
     width |-> image.width, height |-> image.height]

\* the response of the request processed alone, given what its calls did
AloneResponse(r) ==
    IF ~HasPdfExtension(filename[r])
    THEN [status |-> 400, detail |-> OnlyPdfDetail]
    ELSE IF Failed(r)
    THEN LET k == CHOOSE j \in 1..Len(log[r]) : ~log[r][j].out.ok
         IN [status |-> 500, detail |-> ProcessingPrefix \o log[r][k].out.err]
    ELSE [status |-> 200, success |-> TRUE,
          total_pages |-> Len(RasterReturned(r)),
          images |-> [k \in 1..Len(RasterReturned(r)) |->
                         AloneEntry(k, RasterReturned(r)[k])]]

C9_RequestsIsolated ==
    \A r \in Uploads :
        /\ pc[r] = "done" => response[r] = AloneResponse(r)
        /\ pc[r] = "encode" =>
             /\ images[r] = RasterReturned(r)
             /\ idx[r] <= Len(images[r])
             /\ result[r] = [k \in 1..idx[r] |-> AloneEntry(k, images[r][k])]
        /\ pc[r] \in {"convert", "encode"} => pdf_content[r] = body[r]

\* two uploads of different documents, both in the middle of their pages
C9_Witness ==
    \E r, q \in Uploads :
        /\ r # q
        /\ pc[r] = "encode" /\ pc[q] = "encode"
        /\ idx[r] = 1 /\ idx[q] = 1
        /\ Len(images[r]) = 2 /\ Len(images[q]) = 2
        /\ images[r][1] # images[q][1]

(***************************************************************************)
(* C10: a request rejected with 400 has read nothing and has not called    *)
(* the rasterizer; a request whose filename passed and whose read returned *)
(* calls the rasterizer exactly once, with the bytes read (the body of the *)
(* upload) and a resolution of 150.                                        *)
(***************************************************************************)
C10_ValidationFirstRasterizeOnce ==
    \A r \in Uploads :
        /\ response[r].status = 400 =>
             /\ Len(LogEvents(r, "read")) = 0
             /\ Len(LogEvents(r, "convert")) = 0
             /\ Len(LogEvents(r, "encode")) = 0
        /\ ~HasPdfExtension(filename[r]) => pc[r] \in {"validate", "done"}
        /\ (Len(LogEvents(r, "read")) = 1 /\ LogEvents(r, "read")[1].out.ok) =>
             /\ LogEvents(r, "read")[1].out.val = body[r]
             /\ Len(LogEvents(r, "convert")) <= 1
             /\ pc[r] \in {"encode", "done"} =>
                  /\ Len(LogEvents(r, "convert")) = 1
                  /\ LogEvents(r, "convert")[1].arg =
                       [pdf |-> LogEvents(r, "read")[1].out.val, dpi |-> 150]
        /\ Len(LogEvents(r, "convert")) > 0 =>
             /\ Len(LogEvents(r, "read")) = 1
             /\ LogEvents(r, "read")[1].out.ok

\* one upload rejected, one whose document went to the rasterizer
C10_Witness ==
    \E r, q \in Uploads :
        /\ pc[r] = "done" /\ response[r].status = 400
        /\ Len(body[r]) > 0
        /\ pc[q] = "done"
        /\ Len(LogEvents(q, "convert")) = 1
        /\ LogEvents(q, "convert")[1].arg.pdf = body[q]
        /\ IsPdf(body[q])

====
